---- MODULE Spec2Model ----
(***************************************************************************)
(* Model of the password generator (src/src/generator.rs, models.rs).      *)
(*                                                                         *)
(* Generator::generate_password is modelled loop iteration by loop         *)
(* iteration: the construction of the rule queue, the round-robin          *)
(* distribution loop, the front/back shuffle loop and the character fill.  *)
(* Generator::get_password_strength is modelled as one action.             *)
(*                                                                         *)
(* Characters are their code points (all pools are ASCII).  The random     *)
(* number generator is a nondeterministic choice of the index returned by  *)
(* gen_range, any index of the range.  The f64 arithmetic of the strength  *)
(* estimate is modelled in fixed point (mantissas of 42 fractional bits,   *)
(* 29 fractional bits of a.log(b)), every product kept below 2^31; the     *)
(* result is the f64 result in tenths of a percent, rounded down.          *)
(***************************************************************************)
EXTENDS Integers, Sequences, FiniteSets

VARIABLES
    pc,                            \* position of the generator's caller
    args,                          \* arguments of the call in progress / last call
    len,                           \* `mut len` of generate_password_rules
    distributed_rules,             \* VecDeque of the enabled rules
    password_char_rules_unsorted,  \* Vec: the round-robin list
    password_char_rules,           \* VecDeque: the shuffled rule sequence
    origin,                        \* history: round-robin index of each shuffled rule
    pos,                           \* number of elements the running iterator has consumed
    steps,                         \* iterations made by the running loop
    password,                      \* the String being collected / returned
    strength,                      \* result of get_password_strength (tenths of a percent)
    strength_path                  \* which return of get_password_strength produced it

vars == <<pc, args, len, distributed_rules, password_char_rules_unsorted,
          password_char_rules, origin, pos, steps, password, strength, strength_path>>

----------------------------------------------------------------------------
(* Bounds of the model *)

\* generate_password is explored for every request of at most this length
MaxLen == 2

(* Program constants *)

\* len: u8
U8Max == 255

----------------------------------------------------------------------------
(* models.rs *)

CodeRange(a, b) == [i \in 1..(b - a + 1) |-> a + i - 1]

\* "!\"#$%&'()*+,-./:;<=>?@[\\]^_`{|}~"
SYMBOLS == CodeRange(33, 47) \o CodeRange(58, 64) \o CodeRange(91, 96) \o CodeRange(123, 126)
\* "abcdefghijklmnopqrstuvwxyz"
LOWERCASE == CodeRange(97, 122)
\* "ABCDEFGHIJKLMNOPQRSTUVWXYZ"
UPPERCASE == CodeRange(65, 90)
\* "0123456789"
DIGITS == CodeRange(48, 57)

PasswordCharRule == {"Symbols", "Lower", "Upper", "Digit"}

InsertDirection == {"Front", "Back"}

Args == [len : 0..U8Max, with_symbols : BOOLEAN, with_numbers : BOOLEAN,
         with_uppercase : BOOLEAN, with_lowercase : BOOLEAN]

MkArgs(l, s, n, u, lo) ==
    [len |-> l, with_symbols |-> s, with_numbers |-> n,
     with_uppercase |-> u, with_lowercase |-> lo]

----------------------------------------------------------------------------
(* VecDeque / Vec helpers *)

push_back(q, x) == Append(q, x)

push_front(q, x) == <<x>> \o q

\* the deque left by pop_front on a non-empty deque
pop_front_rest(q) == Tail(q)

----------------------------------------------------------------------------
(* Generator::get_random_element *)

\* the indices rng.gen_range(0..n) can return
RandIdx(n) == 0..(n - 1)

get_random_element(elements, i) == elements[i + 1]

----------------------------------------------------------------------------
Init ==
    /\ pc = "idle"
    /\ args = MkArgs(0, FALSE, FALSE, FALSE, FALSE)
    /\ len = 0
    /\ distributed_rules = <<>>
    /\ password_char_rules_unsorted = <<>>
    /\ password_char_rules = <<>>
    /\ origin = <<>>
    /\ pos = 0
    /\ steps = 0
    /\ password = <<>>
    /\ strength = -1
    /\ strength_path = "none"

----------------------------------------------------------------------------
(* Generator::generate_password_rules, lines 127-139: the queue of enabled rules *)

\* variant: the uppercase test is chained to the lowercase one with `else if`
InitialRules_else_if(a) ==
    LET q0 == <<>>
        q1 == IF a.with_symbols THEN push_back(q0, "Symbols") ELSE q0
        q2 == IF a.with_numbers THEN push_back(q1, "Digit") ELSE q1
        q3 == IF a.with_lowercase THEN push_back(q2, "Lower")
              ELSE IF a.with_uppercase THEN push_back(q2, "Upper") ELSE q2
    IN  q3

\* variant: the rules are pushed in the order of the parameters (uppercase first)
InitialRules_param_order(a) ==
    LET q0 == <<>>
        q1 == IF a.with_symbols THEN push_back(q0, "Symbols") ELSE q0
        q2 == IF a.with_numbers THEN push_back(q1, "Digit") ELSE q1
        q3 == IF a.with_uppercase THEN push_back(q2, "Upper") ELSE q2
        q4 == IF a.with_lowercase THEN push_back(q3, "Lower") ELSE q3
    IN  q4

InitialRules(a) ==
    LET q0 == <<>>
        q1 == IF a.with_symbols THEN push_back(q0, "Symbols") ELSE q0
        q2 == IF a.with_numbers THEN push_back(q1, "Digit") ELSE q1
        q3 == IF a.with_lowercase THEN push_back(q2, "Lower") ELSE q2
        q4 == IF a.with_uppercase THEN push_back(q3, "Upper") ELSE q3
    IN  q4

(* lines 142-148: the distribution loop *)

\* variant: while len > 1
DistributeContinues_off_by_one(l) == l > 1

\* while len > 0
DistributeContinues(l) == l > 0

\* if let Some(next) = distributed_rules.pop_front()
PopSucceeds(q) == Len(q) > 0

\* variant: the popped rule is put back at the front
Requeue_front(q) == push_front(pop_front_rest(q), Head(q))

\* distributed_rules after pop_front() and push_back(next)
Requeue(q) == push_back(pop_front_rest(q), Head(q))

\* variant: len -= 1 inside the `if let`, only when a rule was popped
LenAfterIteration_only_on_pop(l, popped) == IF popped THEN l - 1 ELSE l

\* len -= 1 at the end of every iteration, whether or not a rule was popped
LenAfterIteration(l, popped) == l - 1

(* lines 151-157: the shuffle loop *)

\* variant: Front inserts in the middle of the deque
InsertRule_middle(q, rule, dir) ==
    CASE dir = "Back"  -> push_back(q, rule)
      [] dir = "Front" -> SubSeq(q, 1, Len(q) \div 2) \o <<rule>>
                          \o SubSeq(q, Len(q) \div 2 + 1, Len(q))

InsertRule(q, rule, dir) ==
    CASE dir = "Back"  -> push_back(q, rule)
      [] dir = "Front" -> push_front(q, rule)

(* Generator::fill_password, lines 178-183 *)

\* variant: the Upper and Lower arms are exchanged
PoolOf_swapped(rule) ==
    CASE rule = "Upper"   -> LOWERCASE
      [] rule = "Lower"   -> UPPERCASE
      [] rule = "Digit"   -> DIGITS
      [] rule = "Symbols" -> SYMBOLS

PoolOf(rule) ==
    CASE rule = "Upper"   -> UPPERCASE
      [] rule = "Lower"   -> LOWERCASE
      [] rule = "Digit"   -> DIGITS
      [] rule = "Symbols" -> SYMBOLS

----------------------------------------------------------------------------
(* Generator::get_password_strength *)

\* variant: only len == 0 returns early
EarlyReturn_zero_only(l) == l = 0

\* if len == 0 { return 0.0 } else if len == 1 { return 0.0 }
EarlyReturn(l) == l = 0 \/ l = 1

max_multiplier == 32 + 10 + 26 + 26

Multiplier(a) ==
      (IF a.with_symbols   THEN 32 ELSE 0)
    + (IF a.with_numbers   THEN 10 ELSE 0)
    + (IF a.with_uppercase THEN 26 ELSE 0)
    + (IF a.with_lowercase THEN 26 ELSE 0)

\* Fixed-point arithmetic for the f64 logarithm a.log(b).  A mantissa is a
\* tuple <<w, f1, f2, f3>>: the value w + f1 / Limb + f2 / Limb^2 + f3 / Limb^3
\* with every f below Limb (42 fractional bits).  RatioOne is 1.0 for the
\* quotient of two logarithms, RatioBits its number of fractional bits.
Limb == 2 ^ 14
RatioBits == 29
RatioOne == 2 ^ RatioBits

\* x * x rounded down to a mantissa, for a mantissa x below 256: the columns
\* of the schoolbook product, lowest first, each with the carry of the one
\* before
WideSquare(x) ==
    LET c0 == x[4] * x[4]
        c1 == 2 * x[4] * x[3] + c0 \div Limb
        c2 == 2 * x[4] * x[2] + x[3] * x[3] + c1 \div Limb
        c3 == 2 * x[4] * x[1] + 2 * x[3] * x[2] + c2 \div Limb
        c4 == 2 * x[3] * x[1] + x[2] * x[2] + c3 \div Limb
        c5 == 2 * x[2] * x[1] + c4 \div Limb
        c6 == x[1] * x[1] + c5 \div Limb
    IN  <<c6, c5 % Limb, c4 % Limb, c3 % Limb>>

\* x / d rounded down to a mantissa, for 0 < d <= 256: long division, the
\* remainder of each limb carried into the next
WideDiv(x, d) ==
    LET t1 == (x[1] % d) * Limb + x[2]
        t2 == (t1 % d) * Limb + x[3]
        t3 == (t2 % d) * Limb + x[4]
    IN  <<x[1] \div d, t1 \div d, t2 \div d, t3 \div d>>

\* the first `bits` binary digits of ln(x) / ln(base), for a mantissa x with
\* 1 <= x < base and bits <= RatioBits: squaring doubles the logarithm, and the digit is 1 when the
\* square reaches the base
RECURSIVE LogRatioBits(_, _, _)
LogRatioBits(x, base, bits) ==
    IF bits = 0 THEN 0
    ELSE LET sq == WideSquare(x)
         IN  IF sq[1] >= base
             THEN 2 ^ (bits - 1) + LogRatioBits(WideDiv(sq, base), base, bits - 1)
             ELSE LogRatioBits(sq, base, bits - 1)

\* <<(a * b) \div d, (a * b) % d>>, bit by bit of a
RECURSIVE MulDivRem(_, _, _)
MulDivRem(a, b, d) ==
    IF a = 0 THEN <<0, 0>>
    ELSE LET p == MulDivRem(a \div 2, b, d)
             t == 2 * p[2] + (a % 2) * b
         IN  <<2 * p[1] + t \div d, t % d>>

\* (a * b) \div d for b >= 0 and d > 0; the test makes b and d values before
\* the recursion on a starts
MulDiv(a, b, d) == CASE b >= 0 /\ d > 0 -> MulDivRem(a, b, d)[1]

\* ln(l) / ln(base) * RatioOne, rounded down, for 1 <= l <= base
LogRatio(l, base) ==
    IF l = base THEN RatioOne ELSE LogRatioBits(<<l, 0, 0, 0>>, base, RatioBits)

\* variant: the base is 256^max_multiplier
StrengthFormula_base_256(l, multiplier) ==
    200 + MulDiv(800 * multiplier, LogRatio(l, 256), RatioOne) \div max_multiplier

\* 20.0 + (a.log(b) * 80.0) with a = len^multiplier, b = 255^max_multiplier,
\* that is 20 + 80 * (multiplier * ln len) / (max_multiplier * ln 255),
\* in tenths of a percent, rounded down.
StrengthFormula(l, multiplier) ==
    200 + MulDiv(800 * multiplier, LogRatio(l, 255), RatioOne) \div max_multiplier

----------------------------------------------------------------------------
(* Actions *)

Returned == {"done", "strength_done"}
Running == {"distribute", "shuffle", "fill"}

\* saturation of the iteration counter
StepCap == U8Max + 1
Tick(n) == IF n < StepCap THEN n + 1 ELSE n

\* longer requests explored besides those of at most MaxLen characters:
\* the request of the generate_pin test; the "random" mode of main.rs at
\* length 4; lowercase with --numbers, and the classes of
\* generate_with_lower_upper_digit_rules, at length 3
LongRequests ==
    { MkArgs(5, FALSE, TRUE, FALSE, FALSE),
      MkArgs(4, TRUE, TRUE, TRUE, TRUE),
      MkArgs(3, FALSE, TRUE, FALSE, TRUE),
      MkArgs(3, FALSE, TRUE, TRUE, TRUE) }

\* the requests explored for generate_password
GenArgs ==
    [len : 0..MaxLen, with_symbols : BOOLEAN, with_numbers : BOOLEAN,
     with_uppercase : BOOLEAN, with_lowercase : BOOLEAN] \cup LongRequests

\* &[InsertDirection::Back, InsertDirection::Front]
Directions == <<"Back", "Front">>

\* generate_password is called: generate_password_rules builds the rule queue
GeneratePassword ==
    /\ pc = "idle"
    /\ pc' = "distribute"
    /\ \E a \in GenArgs :
        /\ args' = a
        /\ len' = a.len
        /\ distributed_rules' = InitialRules(a)
    /\ password_char_rules_unsorted' = <<>>
    /\ password_char_rules' = <<>>
    /\ origin' = <<>>
    /\ pos' = 0
    /\ steps' = 0
    /\ password' = <<>>
    /\ strength' = -1
    /\ strength_path' = "none"

\* one iteration of `while len > 0`
DistributeStep ==
    /\ pc = "distribute"
    /\ DistributeContinues(len)
    /\ IF PopSucceeds(distributed_rules)
       THEN /\ password_char_rules_unsorted' =
                   Append(password_char_rules_unsorted, Head(distributed_rules))
            /\ distributed_rules' = Requeue(distributed_rules)
       ELSE UNCHANGED <<password_char_rules_unsorted, distributed_rules>>
    /\ len' = LenAfterIteration(len, PopSucceeds(distributed_rules))
    /\ steps' = Tick(steps)
    /\ UNCHANGED <<pc, args, password_char_rules, origin, pos, password,
                   strength, strength_path>>

\* the while loop ends; the shuffle's VecDeque is created
DistributeExit ==
    /\ pc = "distribute"
    /\ ~DistributeContinues(len)
    /\ pc' = "shuffle"
    /\ password_char_rules' = <<>>
    /\ origin' = <<>>
    /\ pos' = 0
    /\ steps' = 0
    /\ UNCHANGED <<args, len, distributed_rules, password_char_rules_unsorted,
                   password, strength, strength_path>>

\* one iteration of `for rule in password_char_rules_unsorted`
ShuffleStep ==
    /\ pc = "shuffle"
    /\ pos < Len(password_char_rules_unsorted)
    /\ \E i \in RandIdx(Len(Directions)) :
        LET rule == password_char_rules_unsorted[pos + 1]
            dir  == get_random_element(Directions, i)
        IN  /\ password_char_rules' = InsertRule(password_char_rules, rule, dir)
            /\ origin' = InsertRule(origin, pos, dir)
    /\ pos' = pos + 1
    /\ steps' = Tick(steps)
    /\ UNCHANGED <<pc, args, len, distributed_rules, password_char_rules_unsorted,
                   password, strength, strength_path>>

\* the for loop ends; generate_password_rules returns password_char_rules and
\* its other locals are dropped; fill_password starts
ShuffleExit ==
    /\ pc = "shuffle"
    /\ pos >= Len(password_char_rules_unsorted)
    /\ pc' = "fill"
    /\ len' = 0
    /\ distributed_rules' = <<>>
    /\ password_char_rules_unsorted' = <<>>
    /\ origin' = <<>>
    /\ pos' = 0
    /\ steps' = 0
    /\ password' = <<>>
    /\ UNCHANGED <<args, password_char_rules, strength, strength_path>>

\* the map closure of fill_password on the next rule; after the last rule the
\* iterator is exhausted, collect::<String>() finishes and generate_password
\* returns the String
FillStep ==
    /\ pc = "fill"
    /\ pos < Len(password_char_rules)
    /\ LET pool == PoolOf(password_char_rules[pos + 1])
       IN  \E i \in RandIdx(Len(pool)) :
               password' = Append(password, get_random_element(pool, i))
    /\ pos' = pos + 1
    /\ steps' = Tick(steps)
    /\ pc' = IF pos + 1 < Len(password_char_rules) THEN "fill" ELSE "done"
    /\ UNCHANGED <<args, len, distributed_rules, password_char_rules_unsorted,
                   password_char_rules, origin, strength, strength_path>>

\* fill_password on an empty rule sequence: the empty String is returned
FillEmpty ==
    /\ pc = "fill"
    /\ Len(password_char_rules) = 0
    /\ pc' = "done"
    /\ UNCHANGED <<args, len, distributed_rules, password_char_rules_unsorted,
                   password_char_rules, origin, pos, steps, password,
                   strength, strength_path>>

\* get_password_strength, the whole call
GetPasswordStrength ==
    /\ pc = "idle"
    /\ pc' = "strength_done"
    /\ \E a \in Args :
        /\ args' = a
        /\ IF EarlyReturn(a.len)
           THEN /\ strength' = 0
                /\ strength_path' = "early"
           ELSE /\ strength' = StrengthFormula(a.len, Multiplier(a))
                /\ strength_path' = "formula"
    /\ len' = 0
    /\ distributed_rules' = <<>>
    /\ password_char_rules_unsorted' = <<>>
    /\ password_char_rules' = <<>>
    /\ origin' = <<>>
    /\ pos' = 0
    /\ steps' = 0
    /\ password' = <<>>

\* the caller has used the returned value (main.rs prints it); the generator
\* keeps nothing of a call but its random source
Return ==
    /\ pc \in Returned
    /\ pc' = "idle"
    /\ args' = MkArgs(0, FALSE, FALSE, FALSE, FALSE)
    /\ len' = 0
    /\ distributed_rules' = <<>>
    /\ password_char_rules_unsorted' = <<>>
    /\ password_char_rules' = <<>>
    /\ origin' = <<>>
    /\ pos' = 0
    /\ steps' = 0
    /\ password' = <<>>
    /\ strength' = -1
    /\ strength_path' = "none"

Next ==
    \/ GeneratePassword
    \/ DistributeStep
    \/ DistributeExit
    \/ ShuffleStep
    \/ ShuffleExit
    \/ FillStep
    \/ FillEmpty
    \/ GetPasswordStrength
    \/ Return

Spec == Init /\ [][Next]_vars

\* generate_password is synchronous and single-threaded: once called, its loops run
\* on until it returns
FairSpec ==
    Spec /\ WF_vars(DistributeStep \/ DistributeExit \/ ShuffleStep \/ ShuffleExit
                    \/ FillStep \/ FillEmpty)
----------------------------------------------------------------------------
(* Vocabulary of the properties *)

ClassOrder == <<"Symbols", "Digit", "Lower", "Upper">>

Enabled(a, rule) ==
    CASE rule = "Symbols" -> a.with_symbols
      [] rule = "Digit"   -> a.with_numbers
      [] rule = "Lower"   -> a.with_lowercase
      [] rule = "Upper"   -> a.with_uppercase

\* the enabled classes in the fixed order Symbols, Digits, Lowercase, Uppercase
EnabledOrder(a) == SelectSeq(ClassOrder, LAMBDA r : Enabled(a, r))

\* k, the number of enabled classes
K(a) ==
      (IF a.with_symbols   THEN 1 ELSE 0)
    + (IF a.with_numbers   THEN 1 ELSE 0)
    + (IF a.with_lowercase THEN 1 ELSE 0)
    + (IF a.with_uppercase THEN 1 ELSE 0)

\* membership of a character in the alphabet of a class, by code point
InClass(c, rule) ==
    CASE rule = "Digit"   -> 48 <= c /\ c <= 57
      [] rule = "Upper"   -> 65 <= c /\ c <= 90
      [] rule = "Lower"   -> 97 <= c /\ c <= 122
      [] rule = "Symbols" -> \/ 33 <= c /\ c <= 47
                             \/ 58 <= c /\ c <= 64
                             \/ 91 <= c /\ c <= 96
                             \/ 123 <= c /\ c <= 126

Count(seq, P(_)) == Len(SelectSeq(seq, P))

\* floor(length / k) and ceil(length / k)
Floor(a) == a.len \div K(a)
Ceil(a) == (a.len + K(a) - 1) \div K(a)

AllFlags(a) ==
    a.with_symbols /\ a.with_numbers /\ a.with_uppercase /\ a.with_lowercase

----------------------------------------------------------------------------
\* C1: with at least one class enabled, generate_password returns a string of
\* exactly the requested length, whatever the random draws were (the empty
\* string for length 0).
LengthExact ==
    (pc = "done" /\ K(args) >= 1) => Len(password) = args.len

LengthExactWitness ==
    /\ pc = "done"
    /\ K(args) = 2
    /\ args.len = 3
    /\ Len(password) = 3
    /\ password[1] = 109

\* C2: a call with all four flags false and length > 0 is rejected; it does not
\* return a string to the caller.
NoClassEnabledRejected ==
    (K(args) = 0 /\ args.len > 0) => pc # "done"

\* C3: every character of the password (also while it is being collected) is in
\* the alphabet of an enabled class and in the alphabet of no disabled class.
CharsFromEnabledPools ==
    (pc \in {"fill", "done"}) =>
        \A p \in 1..Len(password) :
            /\ \E r \in PasswordCharRule : Enabled(args, r) /\ InClass(password[p], r)
            /\ \A r \in PasswordCharRule : Enabled(args, r) \/ ~InClass(password[p], r)

\* the request of the generate_pin test, returning "58638"
CharsFromEnabledPoolsWitness ==
    /\ pc = "done"
    /\ args = MkArgs(5, FALSE, TRUE, FALSE, FALSE)
    /\ password = <<53, 56, 54, 51, 56>>

\* C4: with k >= 1 enabled classes and length >= k, the returned password holds
\* at least one character of every enabled class.
EveryEnabledClassPresent ==
    (pc = "done" /\ K(args) >= 1 /\ args.len >= K(args)) =>
        \A r \in PasswordCharRule :
            Enabled(args, r) => \E p \in 1..Len(password) : InClass(password[p], r)

EveryEnabledClassPresentWitness ==
    /\ pc = "done"
    /\ AllFlags(args)
    /\ args.len = 4
    /\ \A r \in PasswordCharRule : \E p \in 1..Len(password) : InClass(password[p], r)

\* C5: with k >= 1 enabled classes, every enabled class is assigned floor(length/k)
\* or ceil(length/k) positions of the shuffled rule sequence, and the password
\* returned holds that many characters of the class.
BalancedCounts ==
    (pc \in {"fill", "done"} /\ K(args) >= 1) =>
        LET lo == Floor(args)
            hi == Ceil(args)
        IN  \A r \in PasswordCharRule :
                Enabled(args, r) =>
                    LET n == Count(password_char_rules, LAMBDA x : x = r)
                        m == Count(password, LAMBDA c : InClass(c, r))
                    IN  /\ n = lo \/ n = hi
                        /\ pc = "done" => m = n

BalancedCountsWitness ==
    /\ pc = "done"
    /\ K(args) = 2
    /\ args.len = 3
    /\ \E r \in PasswordCharRule : Count(password, LAMBDA c : InClass(c, r)) = 2
    /\ \E r \in PasswordCharRule : Count(password, LAMBDA c : InClass(c, r)) = 1

\* C6: generate_password always completes, for every flag combination including
\* all flags false: each loop makes at most `length` iterations, and a call in
\* progress leads to its return.
Terminates ==
    /\ [](steps <= args.len)
    /\ (pc \in Running) ~> (pc = "done")

TerminatesWitness ==
    /\ pc = "done"
    /\ K(args) = 0
    /\ args.len = 2

\* C7: get_password_strength returns 0.0 through its early return exactly when
\* length is 0 or 1, for every flag combination.
ZeroStrengthIffShort ==
    (pc = "strength_done") =>
        /\ (strength_path = "early") <=> (args.len <= 1)
        /\ (args.len <= 1) => strength = 0

ZeroStrengthIffShortWitness ==
    /\ pc = "strength_done"
    /\ args.len = 1
    /\ AllFlags(args)
    /\ strength = 0

\* C8 as stated: get_password_strength(10, true, true, true, true) is 100 %.
StrengthOfTenIsHundred ==
    (pc = "strength_done" /\ args = MkArgs(10, TRUE, TRUE, TRUE, TRUE)) =>
        strength = 1000

\* C8 amended: with all four classes enabled the strength of length 10 is
\* 20 + 80 * log_255(10), 53.2 % in tenths rounded down, and the strength is
\* 100 % exactly for length 255.
StrengthAllClasses ==
    (pc = "strength_done" /\ AllFlags(args)) =>
        /\ (args.len = 10) => strength = 532
        /\ (strength = 1000) <=> (args.len = 255)

StrengthAllClassesWitness ==
    /\ pc = "strength_done"
    /\ args = MkArgs(10, TRUE, TRUE, TRUE, TRUE)
    /\ strength = 532

\* C9: the round-robin list holds at position i (from 0) the enabled class
\* e[i mod k], e being the enabled classes in the order Symbols, Digits,
\* Lowercase, Uppercase; it has `length` entries once the loop has ended; and
\* after every iteration the queue is e rotated by the number of entries.
RoundRobin ==
    (pc \in {"distribute", "shuffle"}) =>
        LET e == EnabledOrder(args)
            k == Len(e)
            n == Len(password_char_rules_unsorted)
        IN  /\ \A i \in 0..(n - 1) : password_char_rules_unsorted[i + 1] = e[(i % k) + 1]
            /\ k = 0 => n = 0 /\ distributed_rules = <<>>
            /\ k >= 1 =>
                /\ n = args.len - len
                /\ pc = "shuffle" => n = args.len
                /\ Len(distributed_rules) = k
                /\ \A j \in 0..(k - 1) : distributed_rules[j + 1] = e[((n + j) % k) + 1]

RoundRobinWitness ==
    /\ pc = "shuffle"
    /\ args = MkArgs(3, FALSE, TRUE, FALSE, TRUE)
    /\ password_char_rules_unsorted = <<"Digit", "Lower", "Digit">>
    /\ distributed_rules = <<"Lower", "Digit">>

\* C10: after every iteration of the shuffle loop the result holds exactly the
\* round-robin entries processed so far, each once, and read from left to right
\* their round-robin indices strictly decrease down to 0 and then strictly
\* increase.
EndInsertionShape ==
    (pc = "shuffle") =>
        LET n == Len(password_char_rules)
        IN  /\ Len(origin) = n
            /\ n = pos
            /\ {origin[p] : p \in 1..n} = 0..(n - 1)
            /\ \A p \in 1..n :
                   password_char_rules[p] = password_char_rules_unsorted[origin[p] + 1]
            /\ \A p \in 1..(n - 1) :
                   \/ origin[p] > origin[p + 1]
                   \/ \A q \in p..(n - 1) : origin[q] < origin[q + 1]

EndInsertionShapeWitness ==
    /\ pc = "shuffle"
    /\ pos = 4
    /\ origin = <<3, 1, 0, 2>>

====
